---- MODULE Spec2Model ----
(***************************************************************************)
(* Model of the monitoring engine of lkkone/monitor: the status recorder   *)
(* (recordMonitorStatus), the notification decision engine                 *)
(* (sendStatusChangeNotifications) and the retry wrapper                   *)
(* (executeMonitorCheck).  One monitor is modelled; every call of an async *)
(* function is a call frame that advances from one await to the next.      *)
(***************************************************************************)
EXTENDS Integers, Sequences, FiniteSets, TLC

\* ---------------------------------------------------------------- bounds
MaxRecords  == 2   \* recordMonitorStatus calls in one behaviour
MaxProbes   == 3   \* probes of the scheduler loop in one behaviour
MaxRetries  == 2   \* largest monitor.retries and largest `retries` key of monitor.config
MinuteTicks == 2   \* ticks of the logical clock in one minute
MaxIds      == 2   \* distinct candidate ids of each length
MaxPingTime == 2   \* largest response time ping reports, in ms
MaxEvents   == 3   \* events one socket emits in one behaviour
MAX_CACHE_SIZE == 3   \* ids the recently-seen set may hold (10000 in the source)
KeepSize    == 2   \* ids cleanupCache keeps (1000 in the source)
THREE_YEARS_MS == 2   \* width of the time window of the compact ids, in model ticks
MaxGroups   == 2   \* rows the MonitorGroup table can hold
MaxMonitors == 2   \* monitors
MaxRequests == 2   \* API requests in progress at once
MaxDeletes  == 1   \* of them, DELETE requests
MaxPortLen  == 5   \* longest `port` given as a string
MaxInFlight == 2   \* calls of one function that may be suspended at an await at once
MaxResend   == 2   \* largest resendInterval of the monitor
NumChannels == 2   \* notification bindings of the monitor

\* ------------------------------------------------------- program constants
DOWN    == 0
UP      == 1
PENDING == 2

MaxPort == 65535       \* the largest valid port
IdMaxRetries == 10     \* generateUltraCompactIdWithRetry(maxRetries = 10)
NineCharAttempts == 5  \* the attempts that use generateUltraCompactId9

NULL    == -1          \* null / undefined, where a number is expected
NoMessage == "null"    \* null, where a string is expected
NoEntry == [time |-> NULL, status |-> NULL]   \* notificationCache.get() === undefined

Statuses     == {DOWN, UP}
PrevStatuses == {NULL, DOWN, UP}
Messages     == {"m1", "m2"}
Pings        == {NULL, 7}
RecordedStatuses == {DOWN, UP, PENDING}   \* the statuses a caller may record
RecordedTypes    == {"http", "push"}      \* params.monitorType: push, and any other type
ChannelTypes == {"Webhook", "unknown"}    \* a type sendNotification handles / one it does not

VARIABLES
  history,         \* MonitorStatus rows of the monitor, in insertion (timestamp) order
  monitor,         \* the monitor's last-known fields
  clock,           \* logical time: advanced by every insert
  nRecs,           \* ids handed out so far by the id generator
  resendInterval,  \* monitor.resendInterval
  bindings,        \* the monitor's notification bindings, each with its channel
  cache,           \* notificationCache entry of the monitor
  recs,            \* call frames of recordMonitorStatus, one per slot
  evals,           \* call frames of sendStatusChangeNotifications, one per slot
  run,             \* history variable: the current run of consecutive DOWN evaluations
  sched,           \* the scheduler loop that drives one monitor
  chk,             \* one executeMonitorCheck call: the monitor checked and the call stack
  post,            \* one DingTalk or WeCom dispatch: the request and its response
  portCheck,       \* one probe of a port, mysql or redis monitor: the config and the result
  grp,             \* the monitor groups API: the tables and the requests in flight
  ids,             \* the id generator: the recently-seen set and the call in progress
  conn,            \* one checkMysql or checkRedis call and the connection it opens
  icmp,            \* one ICMP check: the config, the ping outcome and the result
  sock             \* one TCP port check: the socket, its events and the promise

dbVars  == <<history, monitor, clock>>
cfgVars == <<resendInterval, bindings>>
vars    == <<history, monitor, clock, nRecs, resendInterval, bindings, cache,
             recs, evals, run, sched, chk, post, portCheck, grp, ids, conn, icmp, sock>>
moreVars   == <<ids, conn, icmp, sock>>
otherVars  == <<chk, post, portCheck, grp, moreVars>>
engineVars == <<dbVars, nRecs, cfgVars, cache, recs, evals, run, sched>>

\* ------------------------------------------------------------- helpers
Min(a, b) == IF a < b THEN a ELSE b

Slots    == 1..MaxInFlight
Channels == 1..NumChannels

RecsInFlight  == {k \in Slots : recs[k].pc \in {"create", "update"}}
EvalsInFlight == {k \in Slots : evals[k].pc \notin {"idle", "done"}}
Idle          == RecsInFlight = {} /\ EvalsInFlight = {}

\* generateCompactMessage: null for UP, the original for DOWN, a short text for PENDING
generateCompactMessage(status, originalMessage) ==
  IF status = UP THEN NoMessage
  ELSE IF status = DOWN THEN originalMessage
  ELSE IF status = PENDING THEN "waiting"   \* the source text is the Chinese for "waiting"
  ELSE originalMessage

\* ------------------------------------------------ recordMonitorStatus
NoRec ==
  [pc |-> "idle", id |-> 0, status |-> NULL, message |-> NoMessage, ping |-> NULL,
   monitorType |-> "http", compactMessage |-> NoMessage, checkAt |-> NULL]

\* The synchronous prefix: the id and the compact message are computed and
\* prisma.monitorStatus.create is issued.
RecStart(k, status, message, ping, monitorType) ==
  /\ k \notin RecsInFlight
  /\ nRecs' = nRecs + 1
  /\ recs' = [recs EXCEPT ![k] =
                [pc |-> "create", id |-> nRecs + 1, status |-> status,
                 message |-> message, ping |-> ping, monitorType |-> monitorType,
                 compactMessage |-> generateCompactMessage(status, message),
                 checkAt |-> NULL]]
  /\ UNCHANGED <<dbVars, cfgVars, otherVars, cache, evals, run>>

\* What the monitor update of a call writes.
UpdateTouchesMonitor(r) ==
  [lastCheckAt |-> r.checkAt, lastStatus |-> r.status,
   lastMessage |-> r.message, lastPing |-> r.ping]

\* await prisma.monitorStatus.create resolves: the row is committed; the
\* monitor update is issued with lastCheckAt = new Date().
RecCreate(k) ==
  /\ recs[k].pc = "create"
  /\ clock' = clock + 1
  /\ history' = Append(history, [id |-> recs[k].id, status |-> recs[k].status,
                                 message |-> recs[k].compactMessage,
                                 ping |-> recs[k].ping, timestamp |-> clock + 1])
  /\ recs' = [recs EXCEPT ![k].pc = "update", ![k].checkAt = clock + 1]
  /\ UNCHANGED <<monitor, nRecs, cfgVars, otherVars, cache, evals, run, sched>>

\* await prisma.monitorStatus.create rejects: caught, logged, rethrown.
RecCreateFail(k) ==
  /\ recs[k].pc = "create"
  /\ recs' = [recs EXCEPT ![k].pc = "threw"]
  /\ UNCHANGED <<dbVars, nRecs, cfgVars, otherVars, cache, evals, run, sched>>

\* await prisma.monitor.update resolves: the call returns the record.
RecUpdate(k) ==
  /\ recs[k].pc = "update"
  /\ monitor' = UpdateTouchesMonitor(recs[k])
  /\ recs' = [recs EXCEPT ![k].pc = "returned"]
  /\ UNCHANGED <<history, clock, nRecs, cfgVars, otherVars, cache, evals, run, sched>>

\* await prisma.monitor.update rejects: caught, logged, rethrown; the row stays.
RecUpdateFail(k) ==
  /\ recs[k].pc = "update"
  /\ recs' = [recs EXCEPT ![k].pc = "threw"]
  /\ UNCHANGED <<dbVars, nRecs, cfgVars, otherVars, cache, evals, run, sched>>


\* ------------------------------------- sendStatusChangeNotifications
\* notificationBindings: { where: { enabled: true } }
EnabledBindings == SelectSeq(bindings, LAMBDA b : b.enabled)
HasEnabledBindings == Len(EnabledBindings) > 0

\* The bindings the dispatch loops reach: `if (!channel.enabled) continue`.
Dispatchable == SelectSeq(EnabledBindings, LAMBDA b : b.channel.enabled)

\* statusHistory: orderBy timestamp desc, take 2; new when at most one row.
IsNewMonitor(hist) == Len(hist) <= 1

\* The previous status the decision uses: the caller's, or statusHistory[1].
RealPrevStatus(prev, hist) ==
  IF prev = NULL /\ ~IsNewMonitor(hist) /\ Len(hist) > 1
  THEN hist[Len(hist) - 1].status
  ELSE prev

\* `if (prevStatus !== null && realPrevStatus === status) return`
NoTransitionNullOnly(prev, realPrev, status) == prev = NULL /\ realPrev = status
NoTransition(prev, realPrev, status) == prev # NULL /\ realPrev = status

\* `if (isNewMonitor && status === 1) return`
NewMonitorDown(isNew, status) == isNew /\ status = DOWN
NewMonitorUp(isNew, status) == isNew /\ status = UP

\* The branch of the if / else if / else over the new status.
Branch(status, realPrev, isNew) ==
  IF status = DOWN THEN "down"
  ELSE IF status = UP /\ realPrev = DOWN /\ ~isNew THEN "recovery"
  ELSE "other"

\* The repeat-notification gate of the DOWN branch, on the cache entry read.
ResendGateNoSuppress(last) ==
  IF resendInterval > 0 /\ last # NoEntry /\ last.status = DOWN THEN "count" ELSE "emit"
ResendGate(last) ==
  IF resendInterval > 0
  THEN IF last # NoEntry /\ last.status = DOWN THEN "count" ELSE "emit"
  ELSE IF last # NoEntry /\ last.status = DOWN THEN "suppress" ELSE "emit"

\* prisma.monitorStatus.count({ status: 0, timestamp: { gt: ts } })
CountDownAll(ts) ==
  Cardinality({k \in 1..Len(history) : history[k].status = DOWN})
CountDownAfter(ts) ==
  Cardinality({k \in 1..Len(history) : history[k].status = DOWN /\ history[k].timestamp > ts})

\* Timestamp of the latest UP row, or new Date(0).
LastSuccessTime ==
  LET ups == {history[k].timestamp : k \in {j \in 1..Len(history) : history[j].status = UP}}
  IN IF ups = {} THEN 0 ELSE CHOOSE m \in ups : \A x \in ups : x <= m

\* Timestamp of the earliest DOWN row after ts, or NULL.
FirstFailureAfter(ts) ==
  LET downs == {history[k].timestamp :
                  k \in {j \in 1..Len(history) : history[j].status = DOWN /\ history[j].timestamp > ts}}
  IN IF downs = {} THEN NULL ELSE CHOOSE m \in downs : \A x \in downs : m <= x

\* The call returns: its working locals are gone; what it decided and did stays.
Return(f) ==
  [f EXCEPT !.pc = "done", !.idx = 0, !.since = NULL, !.firstFailure = NULL]

\* Past the last dispatch of a loop: notificationCache.set(monitorId, {time: now, status}).
FinishWithoutCache(f) == Return(f)
FinishDispatch(f) == [Return(f) EXCEPT !.cacheSet = TRUE]

\* The data handed to sendNotification: failureCount (absent but in the DOWN
\* branch) and the first line of the message, with the number in it; the rest
\* of the message is notificationData.message in every branch.
NoData == [failureCount |-> NULL, message |-> [head |-> "none", n |-> NULL]]
PlainData == [failureCount |-> NULL, message |-> [head |-> "plain", n |-> NULL]]
\* recoverDuration: whole minutes since the cached notification when that was
\* a DOWN one, else 0.
RecoverDuration(lastNotification, now) ==
  IF lastNotification # NoEntry /\ lastNotification.status = DOWN
  THEN (now - lastNotification.time) \div MinuteTicks
  ELSE 0
\* The recovery message: the duration sentence is there when recoverDuration > 0.
RecoveryData(recoverDuration) ==
  [failureCount |-> NULL,
   message |-> [head |-> "recovered",
                n |-> IF recoverDuration > 0 THEN recoverDuration ELSE NULL]]
AggregatedData(totalFailures) ==
  [failureCount |-> totalFailures,
   message |-> [head |-> "continuousFailures", n |-> totalFailures]]

DataOf(f) ==
  CASE f.kind = "down"     -> AggregatedData(f.failureCount)
    [] f.kind = "recovery" -> RecoveryData(RecoverDuration(f.last, f.now))
    [] OTHER               -> PlainData

\* Entering a dispatch loop, the data built: with no channel to reach the loop
\* runs to its end at once.
StartDispatch(f) ==
  LET g == [f EXCEPT !.data = DataOf(f)]
  IN  IF Len(Dispatchable) = 0 THEN FinishDispatch(g) ELSE [g EXCEPT !.pc = "dispatch", !.idx = 1]

\* The frame when findUnique has resolved, run up to the next await.
AfterFindUnique(f) ==
  LET isNew    == IsNewMonitor(history)
      realPrev == RealPrevStatus(f.prev, history)
      g == [f EXCEPT !.histLen = Min(Len(history), 2),   \* take: 2
                     !.isNew = isNew, !.realPrev = realPrev]
      h == [g EXCEPT !.last = cache, !.now = clock,
                     !.kind = Branch(f.status, realPrev, isNew)]
  IN IF ~HasEnabledBindings THEN Return(g)
     ELSE IF NoTransition(f.prev, realPrev, f.status) THEN Return(g)
     ELSE IF NewMonitorUp(isNew, f.status) THEN Return(g)
     ELSE IF h.kind = "down"
          THEN CASE ResendGate(cache) = "count"    -> [h EXCEPT !.pc = "countSince"]
                 [] ResendGate(cache) = "suppress" -> Return(h)
                 [] OTHER                          -> [h EXCEPT !.pc = "lastSuccess"]
          ELSE StartDispatch(h)

\* The cache after a step that leaves the frame as f.
CacheAfter(f) ==
  IF f.pc = "done" /\ f.cacheSet THEN [time |-> f.now, status |-> f.status] ELSE cache

NoEval ==
  [pc |-> "idle", status |-> NULL, prev |-> NULL, overlap |-> {},
   histLen |-> NULL, isNew |-> FALSE, realPrev |-> NULL, last |-> NoEntry, now |-> NULL, kind |-> "none",
   since |-> NULL, failureCount |-> NULL, firstFailure |-> NULL,
   idx |-> 0, att |-> [c \in Channels |-> 0],
   data |-> NoData,
   cacheSet |-> FALSE, err |-> FALSE]

NewEval(status, prev) ==
  [NoEval EXCEPT !.pc = "findUnique", !.status = status, !.prev = prev,
                 !.overlap = EvalsInFlight]

\* An evaluation has emitted when a channel has had a dispatch.
Emitted(f) == \E c \in Channels : f.att[c] > 0

\* History variable: whether a run of consecutive DOWN evaluations is open, and
\* the notifications emitted (counted to 2) and query failures in it.
RunAtStart(status) ==
  IF status = DOWN THEN [run EXCEPT !.open = TRUE]
  ELSE [open |-> FALSE, emits |-> 0, err |-> FALSE]

RunAfter(old, f) ==
  [run EXCEPT !.emits = IF f.status = DOWN /\ ~Emitted(old) /\ Emitted(f)
                        THEN Min(@ + 1, 2) ELSE @,
              !.err = @ \/ (f.status = DOWN /\ f.err)]

\* The call: prisma.monitor.findUnique is issued.  A frame that overlapped the
\* slot's previous call no longer does.
EvalStart(k, status, prev) ==
  /\ evals[k].pc \in {"idle", "done"}
  /\ evals' = [j \in Slots |->
                 IF j = k THEN NewEval(status, prev)
                 ELSE IF j \in EvalsInFlight
                      THEN [evals[j] EXCEPT !.overlap = @ \cup {k}]
                      ELSE [evals[j] EXCEPT !.overlap = @ \ {k}]]
  /\ run' = RunAtStart(status)
  /\ UNCHANGED <<dbVars, nRecs, cfgVars, otherVars, cache, recs>>

\* The frame of slot k resumes from an await and runs to the next one, as f.
EvalStep(k, f) ==
  /\ evals' = [evals EXCEPT ![k] = f]
  /\ cache' = CacheAfter(f)
  /\ run' = RunAfter(evals[k], f)
  /\ UNCHANGED <<dbVars, nRecs, cfgVars, otherVars, recs, sched>>

EvalFindUnique(k) ==
  /\ evals[k].pc = "findUnique"
  /\ EvalStep(k, AfterFindUnique(evals[k]))

\* failuresSinceLastNotification, against the cache entry read before the await.
AfterCountSince(f) ==
  IF CountDownAfter(f.last.time) < resendInterval THEN Return(f)
  ELSE [f EXCEPT !.pc = "lastSuccess"]

EvalCountSince(k) ==
  /\ evals[k].pc = "countSince"
  /\ EvalStep(k, AfterCountSince(evals[k]))

EvalLastSuccess(k) ==
  /\ evals[k].pc = "lastSuccess"
  /\ EvalStep(k, [evals[k] EXCEPT !.pc = "totalFailures", !.since = LastSuccessTime])

EvalTotalFailures(k) ==
  /\ evals[k].pc = "totalFailures"
  /\ EvalStep(k, [evals[k] EXCEPT !.pc = "firstFailure",
                                  !.failureCount = CountDownAfter(evals[k].since)])

EvalFirstFailure(k) ==
  /\ evals[k].pc = "firstFailure"
  /\ EvalStep(k, StartDispatch([evals[k] EXCEPT
                                  !.firstFailure = FirstFailureAfter(evals[k].since)]))

\* sendNotification: the switch over the channel type; the default case throws.
SendThrows(type, delivered) == type \notin {"Webhook"} \/ ~delivered

\* The try / catch inside the dispatch loops: a throw is logged there, so the
\* loop goes on to the next binding whether the dispatch threw or not.
LoopGoesOnUnlessThrown(threw) == ~threw
LoopGoesOn(threw) == TRUE

\* One `await sendNotification(...)` of a dispatch loop has settled.
AfterDispatch(f, delivered) ==
  LET b == Dispatchable[f.idx]
      g == [f EXCEPT !.att[b.ch] = @ + 1]
  IN IF ~LoopGoesOn(SendThrows(b.channel.type, delivered))
     THEN [Return(g) EXCEPT !.err = TRUE]
     ELSE IF f.idx = Len(Dispatchable) THEN FinishDispatch(g)
     ELSE [g EXCEPT !.idx = f.idx + 1]

EvalDispatch(k, delivered) ==
  /\ evals[k].pc = "dispatch"
  /\ EvalStep(k, AfterDispatch(evals[k], delivered))

\* The catch around the whole body: the error is logged and the call returns.
OuterCatchRethrows(f) == [f EXCEPT !.pc = "threw", !.err = TRUE]
OuterCatch(f) == [Return(f) EXCEPT !.err = TRUE]

\* A query rejects at its await: the outer catch takes it.
EvalQueryFail(k) ==
  /\ evals[k].pc \in {"findUnique", "countSince", "lastSuccess", "totalFailures", "firstFailure"}
  /\ EvalStep(k, OuterCatch(evals[k]))

\* ------------------------------------------------- executeMonitorCheck
\* monitor.type: the types whose checkers embed a retry loop, one of the types
\* probed over HTTP, and a type the switch does not know.
RetryingTypes == {"port", "icmp", "mysql", "redis"}
MonitorTypes  == RetryingTypes \cup {"http", "unknown"}
SupportedTypes == RetryingTypes \cup {"http"}

\* A frame of executeMonitorCheck: monitor.retries as the frame sees it, the
\* first result, and the index of the retry loop.
\* A CheckResult: its status, the prefixes put before its message (outermost
\* first), the probe its message text is from and the probe its ping and
\* details are from (0: no probe, the text is of the config error).
NoResult == [status |-> NULL, pre |-> <<>>, msgOf |-> NULL, dataOf |-> NULL]
ProbeResult(p, status) == [status |-> status, pre |-> <<>>, msgOf |-> p, dataOf |-> p]
Prefix(tag, k, n) == [tag |-> tag, k |-> k, n |-> n]

\* The catch of executeMonitorCheck: status 0, "check failed: " + error.message.
ErrorResult(p) ==
  [status |-> DOWN, pre |-> <<Prefix("error", 0, 0)>>, msgOf |-> p, dataOf |-> NULL]

\* The default case of the switch: status 0, "unsupported monitor type".
UnsupportedResult ==
  [status |-> DOWN, pre |-> <<Prefix("unsupported", 0, 0)>>, msgOf |-> NULL, dataOf |-> NULL]

\* { ...retryResult, message: "retry succeeded (i+1/retries): " + retryResult.message }
RetrySucceededZeroBased(r, i, n) == [r EXCEPT !.pre = <<Prefix("retryOk", i, n)>> \o @]
RetrySucceeded(r, i, n) == [r EXCEPT !.pre = <<Prefix("retryOk", i + 1, n)>> \o @]

\* { ...result, message: "still failing after n retries: " + result.message },
\* of the first result, not of the last retry's.
RetriesFailedLast(first, last, n) == [last EXCEPT !.pre = <<Prefix("retryFail", n, n)>> \o @]
RetriesFailed(first, last, n) == [first EXCEPT !.pre = <<Prefix("retryFail", n, n)>> \o @]

ExecFrame(retries) == [pc |-> "switch", retries |-> retries, result |-> NoResult, i |-> 0]

\* No checker is running.
NoChecker == [pc |-> "none", retries |-> 0, first |-> NoResult, i |-> 0]

NoCheck ==
  [type |-> "unknown", retries |-> 0, cfgRetries |-> 0, cfgOk |-> TRUE, cfgValid |-> TRUE,
   stack |-> <<>>,
   checker |-> NoChecker, probes |-> 0, inflight |-> 0, firstOutcome |-> NULL,
   outcomes |-> <<>>]

\* executeMonitorCheck(monitor) is called: monitor.type, monitor.retries and
\* the `retries` key of monitor.config.
NewCheck(type, retries, cfgRetries) ==
  [NoCheck EXCEPT !.type = type, !.retries = retries, !.cfgRetries = cfgRetries,
                  !.stack = <<ExecFrame(retries)>>]

\* The call on a monitor whose config does not parse, or is null.
NewCheckBadConfig(type, retries) == [NewCheck(type, retries, 0) EXCEPT !.cfgOk = FALSE]

\* The call on a database monitor whose config parses but has no hostname, no
\* port, or a port out of range.
DatabaseTypes == {"mysql", "redis"}
NewCheckInvalidConfig(type, retries) == [NewCheck(type, retries, 0) EXCEPT !.cfgValid = FALSE]

\* checkDatabaseSingle, checkMysql and checkRedis return DOWN "config invalid"
\* on such a config, each time they are called.
ConfigRejected(c) == c.type \in DatabaseTypes /\ ~c.cfgValid

\* `const { retries = 0 } = config` in a checker, of the object the switch
\* builds for it: the keys are named one by one and `retries` is not among
\* them, so the default applies.
PassedRetriesOfConfig(c) == c.cfgRetries
PassedRetries(c) == 0

\* The checkers probed over HTTP make one probe per call: they have no retry
\* loop of their own.
HttpCheckerRetries(c) == 0

\* The retry count a checker runs with: the port, icmp and database checkers
\* take it from the config they are handed.
CheckerRetries(c) ==
  IF c.type \in RetryingTypes THEN PassedRetries(c) ELSE HttpCheckerRetries(c)

\* A frame returns r: the call is over, or the caller's retry loop resumes from
\* `await executeMonitorCheck({...monitor, retries: 0})`.
RECURSIVE Deliver(_, _)
Deliver(stack, r) ==
  IF Len(stack) = 1 THEN <<[stack[1] EXCEPT !.pc = "returned", !.result = r]>>
  ELSE LET rest   == SubSeq(stack, 1, Len(stack) - 1)
           caller == rest[Len(rest)]
       IN IF r.status = UP THEN Deliver(rest, RetrySucceeded(r, caller.i, caller.retries))
          ELSE IF caller.i + 1 < caller.retries
               THEN [rest EXCEPT ![Len(rest)] = [caller EXCEPT !.pc = "timer", !.i = @ + 1]]
               ELSE Deliver(rest, RetriesFailed(caller.result, r, caller.retries))

\* An exception inside the try of the frame on top of the stack: the catch
\* returns the DOWN result of the error.
Uncaught(stack, p) == [stack EXCEPT ![Len(stack)].pc = "threw"]
Caught(stack, p) == Deliver(stack, ErrorResult(p))

\* A checker called by itself, as the exported checkPort, checkIcmp and
\* checkDatabase can be, with a config that carries `retries`: it starts its
\* first probe.
DirectCheck(type, cfgRetries) ==
  [NoCheck EXCEPT !.type = type, !.cfgRetries = cfgRetries,
                  !.checker = [NoChecker EXCEPT !.pc = "probe", !.retries = cfgRetries],
                  !.probes = 1, !.inflight = 1]

\* The checker has returned r: to the frame on top of the stack, which goes on
\* to its retry loop, or to a caller outside.
AfterChecker(stack, r) ==
  LET top == stack[Len(stack)]
  IN IF stack = <<>> THEN stack
     ELSE IF r.status = DOWN /\ top.retries > 0
     THEN [stack EXCEPT ![Len(stack)] = [top EXCEPT !.pc = "timer", !.result = r, !.i = 0]]
     ELSE Deliver(stack, r)

\* A probe is started.
ProbeStarted(c) == [c EXCEPT !.probes = @ + 1, !.inflight = @ + 1]

\* The config is read and the switch over monitor.type taken: the checker is
\* called and starts its first probe; the default case returns DOWN; a config
\* that does not parse throws into the catch.
ExecSwitch ==
  /\ chk.stack # <<>>
  /\ chk.stack[Len(chk.stack)].pc = "switch"
  /\ chk' = IF ~chk.cfgOk
            THEN [chk EXCEPT !.stack = Caught(chk.stack, 0)]
            ELSE IF chk.type \notin SupportedTypes
            THEN [chk EXCEPT !.stack = Deliver(chk.stack, UnsupportedResult)]
            ELSE [ProbeStarted(chk) EXCEPT
                    !.stack[Len(chk.stack)].pc = "checker",
                    !.checker = [NoChecker EXCEPT !.pc = "probe",
                                                  !.retries = CheckerRetries(chk)]]
  /\ UNCHANGED <<engineVars, post, portCheck, grp, moreVars>>

\* The checker frame once the checker has returned.
CheckerGone(c) == IF c.stack = <<>> THEN [NoChecker EXCEPT !.pc = "returned"] ELSE NoChecker

\* The checker after a probe with result r: its own retry policy.
CheckerAfterProbe(c, r) ==
  LET k == c.checker
  IN IF k.first = NoResult
     THEN IF r.status = UP \/ k.retries = 0
          THEN [c EXCEPT !.checker = CheckerGone(c), !.stack = AfterChecker(c.stack, r)]
          ELSE [c EXCEPT !.checker = [k EXCEPT !.pc = "timer", !.first = r]]
     ELSE IF r.status = UP
          THEN [c EXCEPT !.checker = CheckerGone(c),
                         !.stack = AfterChecker(c.stack, RetrySucceeded(r, k.i, k.retries))]
          ELSE IF k.i + 1 < k.retries
               THEN [c EXCEPT !.checker = [k EXCEPT !.pc = "timer", !.i = @ + 1]]
               ELSE [c EXCEPT !.checker = CheckerGone(c),
                              !.stack = AfterChecker(c.stack,
                                                     RetriesFailed(k.first, r, k.retries))]

\* History variable: how each probe ended.
Outcome(status, threw) == [status |-> status, threw |-> threw]

\* The probe in flight settles with status r.
ProbeSettles(r) ==
  /\ chk.checker.pc = "probe"
  /\ ConfigRejected(chk) => r = DOWN
  /\ chk' = CheckerAfterProbe(
              [chk EXCEPT !.inflight = @ - 1,
                          !.firstOutcome = IF chk.probes = 1 THEN r ELSE @,
                          !.outcomes = Append(@, Outcome(r, FALSE))],
              ProbeResult(chk.probes, r))
  /\ UNCHANGED <<engineVars, post, portCheck, grp, moreVars>>

\* The probe in flight rejects: the catch of executeMonitorCheck returns DOWN.
ProbeThrows ==
  /\ chk.checker.pc = "probe"
  /\ chk.type \notin RetryingTypes
  /\ chk' = [chk EXCEPT !.inflight = @ - 1,
                        !.firstOutcome = IF chk.probes = 1 THEN DOWN ELSE @,
                        !.outcomes = Append(@, Outcome(DOWN, TRUE)),
                        !.checker = NoChecker,
                        !.stack = Caught(chk.stack, chk.probes)]
  /\ UNCHANGED <<engineVars, post, portCheck, grp, moreVars>>

\* The checker's retry timer fires: the next probe is started.
CheckerTimer ==
  /\ chk.checker.pc = "timer"
  /\ chk' = [ProbeStarted(chk) EXCEPT !.checker.pc = "probe"]
  /\ UNCHANGED <<engineVars, post, portCheck, grp, moreVars>>

\* The retry timer of executeMonitorCheck fires: it calls itself with retries: 0.
ExecTimer ==
  /\ chk.stack # <<>>
  /\ chk.stack[Len(chk.stack)].pc = "timer"
  /\ chk' = [chk EXCEPT !.stack = Append([chk.stack EXCEPT ![Len(chk.stack)].pc = "retry"],
                                         ExecFrame(0))]
  /\ UNCHANGED <<engineVars, post, portCheck, grp, moreVars>>

\* --------------------------- sendDingTalkNotification / sendWorkWechatNotification
\* The HTTP status of the response, or NULL when none arrives (network error,
\* timeout).
HttpStatuses == {NULL, 200, 204, 302, 404, 500}

\* response.data: falsy (an empty body), or truthy with or without an errcode.
Errcodes == {0, 1, 2}
ResponseBodies ==
  {[truthy |-> FALSE, hasErrcode |-> FALSE, errcode |-> 0],
   [truthy |-> TRUE, hasErrcode |-> FALSE, errcode |-> 0]}
  \cup {[truthy |-> TRUE, hasErrcode |-> TRUE, errcode |-> e] : e \in Errcodes}

PostTypes == {"DingTalk", "WorkWechat"}

NoPost == [pc |-> "none", type |-> "DingTalk", urlSet |-> FALSE,
           status |-> NULL, body |-> [truthy |-> FALSE, hasErrcode |-> FALSE, errcode |-> 0]]

\* sendDingTalkNotification(config, data) / sendWorkWechatNotification(config, data)
\* is called; the response the server will give is fixed with it.
NewPost(type, urlSet, status, body) ==
  [pc |-> "called", type |-> type, urlSet |-> urlSet, status |-> status, body |-> body]

\* axios.post with the default validateStatus resolves on a 2xx response and
\* rejects on any other, and when no response arrives.
AxiosResolves(status) == status # NULL /\ status >= 200 /\ status < 300

\* `if (response.data && response.data.errcode !== 0) throw`
ErrcodeRejected(body) == body.truthy /\ ~(body.hasErrcode /\ body.errcode = 0)

\* `if (!webhookUrl) throw`, then the request is sent.
PostSend ==
  /\ post.pc = "called"
  /\ post' = [post EXCEPT !.pc = IF post.urlSet THEN "sent" ELSE "threw"]
  /\ UNCHANGED <<engineVars, chk, portCheck, grp, moreVars>>

\* `await axios.post(...)` settles and the result is checked.
PostSettles ==
  /\ post.pc = "sent"
  /\ post' = [post EXCEPT !.pc = IF AxiosResolves(post.status) /\ ~ErrcodeRejected(post.body)
                                 THEN "returned" ELSE "threw"]
  /\ UNCHANGED <<engineVars, chk, portCheck, grp, moreVars>>

\* ------------------------------ checkDatabaseSingle / checkPortSingle
\* config.port: a number (NaN among them), a string, or undefined / null.
PortChars == {"0", "7", "-", "a"}
PortStrings == UNION {[1..n -> PortChars] : n \in 0..MaxPortLen}
PortNumbers == {0 - 1, 0, 1, 80, MaxPort, MaxPort + 1}
PortValues ==
  {[kind |-> "missing", n |-> 0, s |-> <<>>], [kind |-> "nan", n |-> 0, s |-> <<>>]}
  \cup {[kind |-> "number", n |-> x, s |-> <<>>] : x \in PortNumbers}
  \cup {[kind |-> "string", n |-> 0, s |-> str] : str \in PortStrings}

PortTypes == {"port", "mysql", "redis"}

IsDigit(c) == c \in {"0", "7"}
DigitValue(c) == IF c = "7" THEN 7 ELSE 0

\* The length of the longest prefix of s made of digits.
RECURSIVE LeadingDigits(_)
LeadingDigits(s) ==
  IF s = <<>> \/ ~IsDigit(Head(s)) THEN 0 ELSE 1 + LeadingDigits(Tail(s))

\* The decimal value of a string of digits.
RECURSIVE DecimalValue(_)
DecimalValue(s) ==
  IF s = <<>> THEN 0
  ELSE 10 * DecimalValue(SubSeq(s, 1, Len(s) - 1)) + DigitValue(s[Len(s)])

\* parseInt(s): an optional sign, then the longest run of digits; NaN when
\* there is none.  What follows the digits is ignored.
ParseInt(s) ==
  LET neg  == s # <<>> /\ Head(s) = "-"
      body == IF neg THEN Tail(s) ELSE s
      k    == LeadingDigits(body)
      v    == DecimalValue(SubSeq(body, 1, k))
  IN [nan |-> k = 0, n |-> IF neg THEN 0 - v ELSE v]

\* `typeof port === 'string' ? parseInt(port) : port`
PortNumber(port) ==
  CASE port.kind = "string" -> ParseInt(port.s)
    [] port.kind = "number" -> [nan |-> FALSE, n |-> port.n]
    [] OTHER                -> [nan |-> TRUE, n |-> 0]

\* `isNaN(portNumber) || portNumber <= 0 || portNumber > 65535`
PortRejected(pn) == pn.nan \/ pn.n <= 0 \/ pn.n > MaxPort

\* socket.connect(port, host) throws a RangeError on a port that is not a
\* number in 0..65535, before any connection is attempted.
ConnectThrows(pn) == pn.nan \/ pn.n < 0 \/ pn.n > MaxPort

NoPortResult == [status |-> NULL, message |-> "none"]
NoPortCheck ==
  [pc |-> "none", type |-> "port", hostname |-> FALSE,
   port |-> [kind |-> "missing", n |-> 0, s |-> <<>>],
   connected |-> FALSE, result |-> NoPortResult]

\* One probe is called on a config.
NewPortCheck(type, hostname, port) ==
  [NoPortCheck EXCEPT !.pc = "called", !.type = type, !.hostname = hostname, !.port = port]

PortReturns(c, status, message) ==
  [c EXCEPT !.pc = "returned", !.result = [status |-> status, message |-> message]]

\* checkDatabaseSingle, then checkMysql / checkRedis up to the connection.
DatabaseProbeStarts(c) ==
  IF ~c.hostname THEN PortReturns(c, DOWN, "missingHostname")
  ELSE IF c.port.kind = "missing" THEN PortReturns(c, DOWN, "missingPort")
  ELSE IF PortRejected(PortNumber(c.port)) THEN PortReturns(c, DOWN, "invalidPort")
  ELSE [c EXCEPT !.pc = "connecting", !.connected = TRUE]

\* checkPortSingle up to the connection: the port is handed to socket.connect
\* as it is.
PortProbeStarts(c) ==
  IF ConnectThrows(PortNumber(c.port)) THEN PortReturns(c, DOWN, "unknownError")
  ELSE [c EXCEPT !.pc = "connecting", !.connected = TRUE]

PortCheckStarts ==
  /\ portCheck.pc = "called"
  /\ portCheck' = IF portCheck.type = "port" THEN PortProbeStarts(portCheck)
                  ELSE DatabaseProbeStarts(portCheck)
  /\ UNCHANGED <<engineVars, chk, post, grp, moreVars>>

\* The connection attempt ends: connected, or an error or timeout.
PortCheckSettles(up) ==
  /\ portCheck.pc = "connecting"
  /\ portCheck' = IF up THEN PortReturns(portCheck, UP, "ok")
                  ELSE PortReturns(portCheck, DOWN, "connectionError")
  /\ UNCHANGED <<engineVars, chk, post, grp, moreVars>>

\* ------------------------------------------------- monitor groups API
GroupIds   == 1..MaxGroups
MonitorIds == 1..MaxMonitors
ReqIds     == 1..MaxRequests
DeleteIds  == {r \in ReqIds : r <= MaxDeletes}
Users      == {"u1", "u2"}
Sessions   == Users \cup {"anonymous"}

\* Names as they arrive in a request body, and String.prototype.trim on them.
RequestNames == {"", " ", "a", "a ", "b"}
Trim(name) == CASE name = " "  -> ""
                [] name = "a " -> "a"
                [] OTHER       -> name
GroupNames == {Trim(n) : n \in RequestNames} \ {""}

\* Rows of MonitorGroup and Monitor; groupId is NULL for an ungrouped monitor.
NoGroupRow == [exists |-> FALSE, name |-> "a", createdById |-> "u1"]
GroupRow(name, user) == [exists |-> TRUE, name |-> name, createdById |-> user]
MonitorRow(groupId) == [exists |-> TRUE, groupId |-> groupId]

NoReq == [kind |-> "none", pc |-> "none", user |-> "anonymous", id |-> 1, name |-> "",
          hadMembers |-> FALSE, raced |-> FALSE, status |-> NULL]
NoGroups ==
  [groups   |-> [g \in GroupIds |-> NoGroupRow],
   monitors |-> [m \in MonitorIds |-> MonitorRow(NULL)],
   reqs     |-> [r \in ReqIds |-> NoReq]]

ReqIdle(r) == grp.reqs[r].pc \in {"none", "done"}
Responds(req, status) == [req EXCEPT !.pc = "done", !.status = status]
SetReq(r, req) == [grp EXCEPT !.reqs[r] = req]

\* A request arrives: the session check and the validation of the name, which
\* come before the first query.
Arrives(kind, user, id, name) ==
  LET req == [NoReq EXCEPT !.kind = kind, !.pc = "called", !.user = user,
                           !.id = id, !.name = Trim(name)]
  IN  IF user = "anonymous" THEN Responds(req, 401)
      ELSE IF kind # "DELETE" /\ Trim(name) = "" THEN Responds(req, 400)
      ELSE req

\* ---- POST /api/monitor-groups
PostStart(r, user, name) ==
  /\ ReqIdle(r)
  /\ grp' = SetReq(r, Arrives("POST", user, 1, name))
  /\ UNCHANGED <<engineVars, chk, post, portCheck, moreVars>>

\* findFirst({name, createdById})
NameTaken(groups, name, user, except) ==
  \E g \in GroupIds \ except :
    groups[g].exists /\ groups[g].name = name /\ groups[g].createdById = user

PostFindName(r) ==
  LET req == grp.reqs[r] IN
  /\ req.kind = "POST" /\ req.pc = "called"
  /\ grp' = SetReq(r, IF NameTaken(grp.groups, req.name, req.user, {})
                      THEN Responds(req, 400)
                      ELSE [req EXCEPT !.pc = "checked"])
  /\ UNCHANGED <<engineVars, chk, post, portCheck, moreVars>>

\* findFirst({createdById}, orderBy displayOrder desc)
PostMaxOrder(r) ==
  LET req == grp.reqs[r] IN
  /\ req.kind = "POST" /\ req.pc = "checked"
  /\ grp' = SetReq(r, [req EXCEPT !.pc = "ordered"])
  /\ UNCHANGED <<engineVars, chk, post, portCheck, moreVars>>

\* monitorGroup.create: a row with a fresh id.
PostCreate(r) ==
  LET req == grp.reqs[r] IN
  /\ req.kind = "POST" /\ req.pc = "ordered"
  /\ \E g \in GroupIds :
       /\ ~grp.groups[g].exists
       /\ grp' = [grp EXCEPT !.groups[g] = GroupRow(req.name, req.user),
                             !.reqs[r] = Responds([req EXCEPT !.id = g], 201)]
  /\ UNCHANGED <<engineVars, chk, post, portCheck, moreVars>>

\* ---- PUT /api/monitor-groups/<id>
PutStart(r, user, id, name) ==
  /\ ReqIdle(r)
  /\ grp' = SetReq(r, Arrives("PUT", user, id, name))
  /\ UNCHANGED <<engineVars, chk, post, portCheck, moreVars>>

\* findFirst({id, createdById})
OwnedGroup(groups, id, user) == groups[id].exists /\ groups[id].createdById = user

PutFindGroup(r) ==
  LET req == grp.reqs[r] IN
  /\ req.kind = "PUT" /\ req.pc = "called"
  /\ grp' = SetReq(r, IF OwnedGroup(grp.groups, req.id, req.user)
                      THEN [req EXCEPT !.pc = "found"]
                      ELSE Responds(req, 404))
  /\ UNCHANGED <<engineVars, chk, post, portCheck, moreVars>>

PutFindConflict(r) ==
  LET req == grp.reqs[r] IN
  /\ req.kind = "PUT" /\ req.pc = "found"
  /\ grp' = SetReq(r, IF NameTaken(grp.groups, req.name, req.user, {req.id})
                      THEN Responds(req, 400)
                      ELSE [req EXCEPT !.pc = "checked"])
  /\ UNCHANGED <<engineVars, chk, post, portCheck, moreVars>>

\* monitorGroup.update({where: {id}}): throws when the row is gone.
PutUpdate(r) ==
  LET req == grp.reqs[r] IN
  /\ req.kind = "PUT" /\ req.pc = "checked"
  /\ grp' = IF grp.groups[req.id].exists
            THEN [grp EXCEPT !.groups[req.id].name = req.name,
                             !.reqs[r] = Responds(req, 200)]
            ELSE SetReq(r, Responds(req, 500))
  /\ UNCHANGED <<engineVars, chk, post, portCheck, moreVars>>

\* ---- DELETE /api/monitor-groups/<id>
DeleteStart(r, user, id) ==
  /\ ReqIdle(r)
  /\ grp' = SetReq(r, Arrives("DELETE", user, id, ""))
  /\ UNCHANGED <<engineVars, chk, post, portCheck, moreVars>>

Members(monitors, g) == {m \in MonitorIds : monitors[m].exists /\ monitors[m].groupId = g}

\* findFirst({id, createdById}, include monitors)
DeleteFind(r) ==
  LET req == grp.reqs[r] IN
  /\ req.kind = "DELETE" /\ req.pc = "called"
  /\ grp' = SetReq(r, IF OwnedGroup(grp.groups, req.id, req.user)
                      THEN [req EXCEPT !.pc = "found",
                                       !.hadMembers = Members(grp.monitors, req.id) # {}]
                      ELSE Responds(req, 404))
  /\ UNCHANGED <<engineVars, chk, post, portCheck, moreVars>>

\* monitor.updateMany({where: {groupId: id}, data: {groupId: null}})
Ungrouped(monitors, g) ==
  [m \in MonitorIds |-> IF monitors[m].groupId = g
                        THEN [monitors[m] EXCEPT !.groupId = NULL]
                        ELSE monitors[m]]

DeleteUpdateMany(r) ==
  LET req == grp.reqs[r] IN
  /\ req.kind = "DELETE" /\ req.pc = "found" /\ req.hadMembers
  /\ grp' = [grp EXCEPT !.monitors = Ungrouped(grp.monitors, req.id),
                        !.reqs[r] = [req EXCEPT !.pc = "updated"]]
  /\ UNCHANGED <<engineVars, chk, post, portCheck, moreVars>>

\* Monitor_groupId_fkey ... ON DELETE SET NULL: what deleting row g of
\* MonitorGroup does to the rows of Monitor that reference it.
OnDeleteNoAction(monitors, g) == monitors
OnDeleteSetNull(monitors, g) == Ungrouped(monitors, g)

\* The handler is past its own updateMany: what is assigned to the group from
\* here on is left to the foreign key.
PastUpdateMany(req) ==
  req.kind = "DELETE" /\ (req.pc = "updated" \/ (req.pc = "found" /\ ~req.hadMembers))

\* monitorGroup.delete({where: {id}}): throws when the row is gone.
DeleteDelete(r) ==
  LET req == grp.reqs[r] IN
  /\ PastUpdateMany(req)
  /\ grp' = IF grp.groups[req.id].exists
            THEN [grp EXCEPT !.groups[req.id] = NoGroupRow,
                             !.monitors = OnDeleteSetNull(grp.monitors, req.id),
                             !.reqs[r] = Responds(req, 200)]
            ELSE SetReq(r, Responds(req, 500))
  /\ UNCHANGED <<engineVars, chk, post, portCheck, moreVars>>

\* A monitor is moved to group g, or out of its group (g = NULL).  The foreign
\* key refuses a group that does not exist.  `raced` notes, in every DELETE of
\* g that is past its updateMany, that it was overtaken.
AssignMonitor(m, g) ==
  /\ grp.monitors[m].exists
  /\ g # NULL => grp.groups[g].exists
  /\ grp' = [grp EXCEPT
       !.monitors[m].groupId = g,
       !.reqs = [r \in ReqIds |->
                   IF PastUpdateMany(grp.reqs[r]) /\ grp.reqs[r].id = g
                   THEN [grp.reqs[r] EXCEPT !.raced = TRUE]
                   ELSE grp.reqs[r]]]
  /\ UNCHANGED <<engineVars, chk, post, portCheck, moreVars>>

\* ------------------------------------------- generateUltraCompactId
\* An id: a compact one of 9 or 8 characters (which one of the candidates that
\* time and Math.random can give), or a UUID with its text.
CompactId(kind, n) == [kind |-> kind, n |-> n, text |-> <<>>]
NoId == [kind |-> "none", n |-> 0, text |-> <<>>]
IsCompact(id) == id.kind \in {"id9", "id8"}

\* Date.now() - BASE_TIME at a call of a generator.
RelTimes == {0 - 1, 0, THREE_YEARS_MS, THREE_YEARS_MS + 1}

\* `if (relativeTime < 0 || relativeTime > THREE_YEARS_MS) throw`
TimeOutOfRange(t) == t < 0 \/ t > THREE_YEARS_MS

\* generateUUID: every x of the template becomes a hex digit r, the y becomes
\* r & 0x3 | 0x8.
HexDigits == <<"0", "1", "2", "3", "4", "5", "6", "7", "8", "9", "a", "b", "c", "d", "e", "f">>
UuidTemplate ==
  [i \in 1..36 |-> IF i \in {9, 14, 19, 24} THEN "-"
                   ELSE IF i = 15 THEN "4"
                   ELSE IF i = 20 THEN "y" ELSE "x"]
GenerateUUID(r) ==
  [kind |-> "uuid", n |-> 0,
   text |-> [i \in 1..36 |->
               CASE UuidTemplate[i] = "x" -> HexDigits[r + 1]
                 [] UuidTemplate[i] = "y" -> HexDigits[((r % 4) + 8) + 1]
                 [] OTHER -> UuidTemplate[i]]]
UuidRandoms == {6, 15}

SeqRange(q) == {q[i] : i \in 1..Len(q)}

\* isIdExists
IdNeverExists(recent, id) == FALSE
IdExists(recent, id) == id \in SeqRange(recent)

\* cleanupCache: above MAX_CACHE_SIZE ids, only the last KeepSize put in stay.
CleanupCacheOldest(recent) ==
  IF Len(recent) > MAX_CACHE_SIZE THEN SubSeq(recent, 1, KeepSize) ELSE recent
CleanupCache(recent) ==
  IF Len(recent) > MAX_CACHE_SIZE
  THEN SubSeq(recent, Len(recent) - KeepSize + 1, Len(recent))
  ELSE recent

\* addIdToCache; the Set keeps its ids in the order they were put in.
AddIdToCache(recent, id) ==
  CleanupCache(IF id \in SeqRange(recent) THEN recent ELSE Append(recent, id))

\* The generator between calls, with an empty set.  `last` is a history
\* variable: the ids returned by the last KeepSize calls that returned;
\* `trimmed` notes that cleanupCache has cut the set.
NoIds == [pc |-> "idle", recent |-> <<>>, attempt |-> 0, cand |-> NoId, ret |-> NoId,
          last |-> <<>>, trimmed |-> FALSE]

Returns(g, id) ==
  [g EXCEPT !.pc = "returned", !.ret = id,
            !.last = IF Len(@) < KeepSize THEN Append(@, id) ELSE Append(Tail(@), id)]

\* generateUltraCompactId() is called, by recordMonitorStatus.
IdCall ==
  /\ ids.pc \in {"idle", "returned", "threw"}
  /\ ids' = [ids EXCEPT !.pc = "loop", !.attempt = 0, !.cand = NoId, !.ret = NoId]
  /\ UNCHANGED <<engineVars, chk, post, portCheck, grp, conn, icmp, sock>>

\* One pass of the loop at time t, the generator giving candidate n: a time
\* out of the window throws, out of the loop, the function and its callers.
IdAttempt(t, n) ==
  LET id == CompactId(IF ids.attempt < NineCharAttempts THEN "id9" ELSE "id8", n)
  IN
  /\ ids.pc = "loop"
  /\ ids.attempt < IdMaxRetries
  /\ ids' = IF TimeOutOfRange(t) THEN [ids EXCEPT !.pc = "threw"]
            ELSE IF ~IdExists(ids.recent, id)
            THEN [Returns(ids, id) EXCEPT
                    !.cand = id,
                    !.recent = AddIdToCache(ids.recent, id),
                    !.trimmed = @ \/ Len(ids.recent) = MAX_CACHE_SIZE]
            ELSE [ids EXCEPT !.cand = id, !.attempt = @ + 1]
  /\ UNCHANGED <<engineVars, chk, post, portCheck, grp, conn, icmp, sock>>

\* Past the loop: `return generateUUID()`.
IdFallback(r) ==
  /\ ids.pc = "loop"
  /\ ids.attempt = IdMaxRetries
  /\ ids' = Returns(ids, GenerateUUID(r))
  /\ UNCHANGED <<engineVars, chk, post, portCheck, grp, conn, icmp, sock>>

\* ------------------------------------------- checkMysql / checkRedis
\* config.query: absent, blank, or a query / command.
Queries == {"none", "blank", "query"}
HasQuery(q) == q = "query"      \* `query && query.trim()`

ConnResult(status, message) == [status |-> status, message |-> message]

\* No call.  `handle` is the `connection` / `client` variable being set;
\* `opens` counts the connections and clients assigned, `closeCalls` the calls
\* of end() / disconnect(), `closed` is whether the last one succeeded.
NoConn == [pc |-> "none", type |-> "mysql", query |-> "none", retries |-> 0, attempt |-> 0,
           handle |-> FALSE, connected |-> FALSE, opens |-> 0, closeCalls |-> 0,
           closed |-> FALSE, result |-> ConnResult(NULL, "none")]

\* checkDatabase(type, config) with config.retries: checkMysql(config) /
\* checkRedis(config) is called, and is past the validation of the port.
NewConn(type, query, retries) ==
  [NoConn EXCEPT !.pc = "called", !.type = type, !.query = query, !.retries = retries]

\* The `finally` block: the connection is closed when one was assigned.
FinallySuccessOnly(c) ==
  IF c.handle /\ c.result.status = UP THEN [c EXCEPT !.pc = "closing"]
  ELSE [c EXCEPT !.pc = "returned"]
Finally(c) ==
  IF c.handle THEN [c EXCEPT !.pc = "closing"] ELSE [c EXCEPT !.pc = "returned"]

\* A `return` inside the try: the result is set, then the `finally` block runs.
ConnReturns(c, status, message) == Finally([c EXCEPT !.result = ConnResult(status, message)])

\* The try is entered.  createClient (redis) assigns the client at once and
\* connect() is awaited; createMysqlConnection is awaited and assigns the
\* connection when it resolves.
ConnOpen ==
  /\ conn.pc = "called"
  /\ conn' = [conn EXCEPT !.pc = "connecting", !.handle = (conn.type = "redis"),
                          !.opens = IF conn.type = "redis" THEN @ + 1 ELSE @]
  /\ UNCHANGED <<engineVars, chk, post, portCheck, grp, ids, icmp, sock>>

\* The connection attempt settles.
ConnConnect(ok) ==
  /\ conn.pc = "connecting"
  /\ conn' = IF ok THEN [conn EXCEPT !.pc = "query", !.handle = TRUE, !.connected = TRUE,
                                      !.opens = IF conn.handle THEN @ ELSE @ + 1]
             ELSE ConnReturns(conn, DOWN, "databaseError")
  /\ UNCHANGED <<engineVars, chk, post, portCheck, grp, ids, icmp, sock>>

\* The query, command or PING settles.
ConnQuery(ok) ==
  /\ conn.pc = "query"
  /\ conn' = IF ok
             THEN ConnReturns(conn, UP, IF HasQuery(conn.query) THEN "okQuery" ELSE "ok")
             ELSE IF conn.type = "redis" /\ HasQuery(conn.query)
             THEN ConnReturns(conn, DOWN, "commandFailed")
             ELSE ConnReturns(conn, DOWN, "databaseError")
  /\ UNCHANGED <<engineVars, chk, post, portCheck, grp, ids, icmp, sock>>

\* `await connection.end()` / `await client.disconnect()` settles; its failure
\* is caught and logged.
ConnClose(ok) ==
  /\ conn.pc = "closing"
  /\ conn' = [conn EXCEPT !.pc = "returned", !.closeCalls = @ + 1, !.closed = ok]
  /\ UNCHANGED <<engineVars, chk, post, portCheck, grp, ids, icmp, sock>>

\* The retry loop of checkDatabase: after a DOWN attempt, and the wait, the
\* next call of checkMysql / checkRedis.
ConnRetry ==
  /\ conn.pc = "returned"
  /\ conn.result.status = DOWN
  /\ conn.attempt < conn.retries
  /\ conn' = [conn EXCEPT !.pc = "called", !.attempt = @ + 1, !.handle = FALSE,
                          !.connected = FALSE, !.closed = FALSE,
                          !.result = ConnResult(NULL, "none")]
  /\ UNCHANGED <<engineVars, chk, post, portCheck, grp, ids, icmp, sock>>

\* ------------------------------------------------------- checkIcmp
\* Packet loss in percent, as ping reports it, and the limits a config can
\* carry (NULL: maxPacketLoss absent, the default 0 applies).
Losses == {0, 50, 100}
PacketLossLimits == {NULL, 0, 50}

\* pingResult.time in ms (NULL: 'unknown'), and config.maxResponseTime
\* (NULL: absent).
PingTimes == {NULL} \cup 0..MaxPingTime
ResponseTimeLimits == {NULL} \cup 1..MaxPingTime

\* `maxResponseTime && pingTime && pingTime > maxResponseTime`: both are
\* tested for truthiness first, so an absent limit, an unknown time and a
\* time of 0 skip the comparison.
TooSlow(pingTime, maxResponseTime) ==
  /\ maxResponseTime # NULL /\ maxResponseTime # 0
  /\ pingTime # NULL /\ pingTime # 0
  /\ pingTime > maxResponseTime

\* The status checkIcmpSingle computes from the probe's result.
IcmpStatus(isAlive, pingTime, maxResponseTime) ==
  IF ~isAlive THEN DOWN
  ELSE IF TooSlow(pingTime, maxResponseTime) THEN DOWN
  ELSE UP

\* No call.  `alive`, `loss` and `time` are what the last probe measured.
NoIcmp == [pc |-> "none", retries |-> 0, attempt |-> 0, maxPacketLoss |-> NULL,
           maxResponseTime |-> NULL, alive |-> FALSE, loss |-> 100, time |-> NULL,
           threw |-> FALSE, status |-> NULL]

\* checkIcmp({hostname, packetCount, maxPacketLoss, maxResponseTime}).
NewIcmp(retries, maxPacketLoss, maxResponseTime) ==
  [NoIcmp EXCEPT !.pc = "probing", !.retries = retries, !.maxPacketLoss = maxPacketLoss,
                 !.maxResponseTime = maxResponseTime]

\* ping.promise.probe resolves: a host that replied lost fewer than all
\* packets, a host that did not lost them all and has no time.
IcmpProbe(isAlive, loss, pingTime) ==
  /\ icmp.pc = "probing"
  /\ isAlive => loss < 100
  /\ ~isAlive => (loss = 100 /\ pingTime = NULL)
  /\ icmp' = [icmp EXCEPT !.pc = "returned", !.alive = isAlive, !.loss = loss,
                          !.time = pingTime, !.threw = FALSE,
                          !.status = IcmpStatus(isAlive, pingTime, icmp.maxResponseTime)]
  /\ UNCHANGED <<engineVars, chk, post, portCheck, grp, ids, conn, sock>>

\* ping.promise.probe rejects: the catch returns DOWN.
IcmpThrows ==
  /\ icmp.pc = "probing"
  /\ icmp' = [icmp EXCEPT !.pc = "returned", !.alive = FALSE, !.loss = 100, !.time = NULL,
                          !.threw = TRUE, !.status = DOWN]
  /\ UNCHANGED <<engineVars, chk, post, portCheck, grp, ids, conn, sock>>

\* The retry loop of checkIcmp: after a DOWN attempt, and the wait, the next
\* checkIcmpSingle.
IcmpRetry ==
  /\ icmp.pc = "returned"
  /\ icmp.status = DOWN
  /\ icmp.attempt < icmp.retries
  /\ icmp' = [icmp EXCEPT !.pc = "probing", !.attempt = @ + 1, !.status = NULL]
  /\ UNCHANGED <<engineVars, chk, post, portCheck, grp, ids, conn, sock>>

\* ---------------------------------------- checkPortSingle: the socket
\* The events of the socket that checkPortSingle listens to; an error carries
\* its code.
ErrorCodes == {"ECONNREFUSED", "ETIMEDOUT", "ENOTFOUND", "other"}
SocketEvents ==
  {[kind |-> "connect", code |-> "none"], [kind |-> "timeout", code |-> "none"]}
  \cup {[kind |-> "error", code |-> c] : c \in ErrorCodes}

\* config.port as checkers.port receives it: not a string here.
SockPorts == {p \in PortValues : p.kind # "string"}

\* What each handler passes to resolve.
EventResult(e) ==
  CASE e.kind = "connect" -> [status |-> UP, message |-> "portOpen"]
    [] e.kind = "timeout" -> [status |-> DOWN, message |-> "TIMEOUT"]
    [] e.code = "ECONNREFUSED" -> [status |-> DOWN, message |-> "CONNECTION_REFUSED"]
    [] e.code = "ETIMEDOUT"    -> [status |-> DOWN, message |-> "TIMEOUT"]
    [] e.code = "ENOTFOUND"    -> [status |-> DOWN, message |-> "HOST_NOT_FOUND"]
    [] OTHER                   -> [status |-> DOWN, message |-> "NETWORK_ERROR"]

\* No call.  `resolved` is the flag of the closure, `result` what the promise
\* is settled with, `destroys` and `resolveCalls` count the calls of
\* socket.destroy() and resolve(), `events` are the events fired so far.
NoSock == [pc |-> "none", port |-> [kind |-> "missing", n |-> 0, s |-> <<>>],
           threw |-> FALSE, resolved |-> FALSE, destroys |-> 0, resolveCalls |-> 0,
           result |-> NoPortResult, events |-> <<>>]

\* checkPortSingle(config): the promise is being constructed.
NewSock(port) == [NoSock EXCEPT !.pc = "called", !.port = port]

\* resolve(r) of the promise: the first call settles it, a later one is ignored.
Resolve(s, r) ==
  [s EXCEPT !.resolveCalls = @ + 1,
            !.result = IF s.result.status = NULL THEN r ELSE @]

\* `if (resolved) return` at the head of each handler.
AlreadyResolvedNever(s) == FALSE
AlreadyResolved(s) == s.resolved

\* The body of a handler of event e.
Handler(s, e) ==
  IF AlreadyResolved(s) THEN s
  ELSE Resolve([s EXCEPT !.resolved = TRUE, !.destroys = @ + 1], EventResult(e))

\* The executor: the socket is created, the timeout set, the handlers
\* registered and socket.connect called; when it throws, the catch resolves.
SockConnect ==
  /\ sock.pc = "called"
  /\ sock' = IF ConnectThrows(PortNumber(sock.port))
             THEN Resolve([sock EXCEPT !.pc = "listening", !.threw = TRUE],
                          [status |-> DOWN, message |-> "UNKNOWN_ERROR"])
             ELSE [sock EXCEPT !.pc = "listening"]
  /\ UNCHANGED <<engineVars, chk, post, portCheck, grp, ids, conn, icmp>>

\* The socket emits an event and its handler runs.  A socket whose connect
\* threw has no connection in progress: only its idle timer can fire.
SockEvent(e) ==
  /\ sock.pc = "listening"
  /\ Len(sock.events) < MaxEvents
  /\ sock.threw => e.kind = "timeout"
  /\ sock' = [Handler(sock, e) EXCEPT !.events = Append(@, e)]
  /\ UNCHANGED <<engineVars, chk, post, portCheck, grp, ids, conn, icmp>>

\* ------------------------------------------------------------- Init
BindingSet ==
  [enabled : BOOLEAN, ch : Channels,
   channel : [enabled : BOOLEAN, type : ChannelTypes]]

\* The bindings of a monitor; a field nothing reads (the channel of a disabled
\* binding, the type of a disabled channel) is left at one value.
BindingConfigs ==
  {b \in [Channels -> BindingSet] : \A c \in Channels :
     /\ b[c].ch = c
     /\ ~b[c].enabled => b[c].channel = [enabled |-> TRUE, type |-> "Webhook"]
     /\ ~b[c].channel.enabled => b[c].channel.type = "Webhook"}

InitEngine ==
  /\ history = <<>>
  /\ monitor = [lastCheckAt |-> NULL, lastStatus |-> NULL,
                lastMessage |-> NoMessage, lastPing |-> NULL]
  /\ clock = 0
  /\ nRecs = 0
  /\ resendInterval \in 0..MaxResend
  /\ bindings \in BindingConfigs
  /\ cache = NoEntry
  /\ recs = [k \in Slots |-> NoRec]
  /\ evals = [k \in Slots |-> NoEval]
  /\ run = [open |-> FALSE, emits |-> 0, err |-> FALSE]
  /\ sched = [pc |-> "sleep", cur |-> NULL, prev |-> NULL]

InitOther(v) ==
  /\ "chk" \in v \/ chk = NoCheck
  /\ "post" \in v \/ post = NoPost
  /\ "portCheck" \in v \/ portCheck = NoPortCheck
  /\ "grp" \in v \/ grp = NoGroups
  /\ "ids" \in v \/ ids = NoIds
  /\ "conn" \in v \/ conn = NoConn
  /\ "icmp" \in v \/ icmp = NoIcmp
  /\ "sock" \in v \/ sock = NoSock

Init == InitEngine /\ InitOther({})

\* ------------------------------------------------- specifications
\* The recorder alone: calls on the monitor suspended and resumed in any order.
InitRecord ==
  /\ Init
  /\ resendInterval = 0
  /\ \A c \in Channels : ~bindings[c].enabled

NextRecord ==
  \/ \E k \in Slots, s \in RecordedStatuses, m \in Messages, p \in Pings,
        t \in RecordedTypes :
       nRecs < MaxRecords /\ RecStart(k, s, m, p, t) /\ UNCHANGED sched
  \/ \E k \in Slots : RecCreate(k)
  \/ \E k \in Slots : RecCreateFail(k)
  \/ \E k \in Slots : RecUpdate(k)
  \/ \E k \in Slots : RecUpdateFail(k)

SpecRecord == InitRecord /\ [][NextRecord]_vars

\* The engine under concurrency: every slot runs one evaluation, the
\* evaluations suspended and resumed in any order while rows are recorded.
Next ==
  \/ \E s \in Statuses :
       Idle /\ nRecs < MaxRecords /\ RecStart(1, s, "m1", NULL, "http") /\ UNCHANGED sched
  \/ RecCreate(1)
  \/ RecUpdate(1)
  \/ \E k \in Slots, s \in Statuses, p \in PrevStatuses :
       /\ RecsInFlight = {}
       /\ evals[k].pc = "idle"
       /\ \A j \in Slots : j < k => evals[j].pc # "idle"   \* slots are taken in order
       /\ EvalStart(k, s, p)
       /\ UNCHANGED sched
  \/ \E k \in Slots : EvalFindUnique(k)
  \/ \E k \in Slots : EvalCountSince(k)
  \/ \E k \in Slots : EvalLastSuccess(k)
  \/ \E k \in Slots : EvalTotalFailures(k)
  \/ \E k \in Slots : EvalFirstFailure(k)
  \/ \E k \in Slots, d \in BOOLEAN : EvalDispatch(k, d)
  \/ \E k \in Slots : EvalQueryFail(k)

Spec == Init /\ [][Next]_vars

\* One call at a time: a call starts when none is suspended.
NextSeq ==
  \/ \E s \in Statuses :
       Idle /\ nRecs < MaxRecords /\ RecStart(1, s, "m1", NULL, "http") /\ UNCHANGED sched
  \/ RecCreate(1)
  \/ RecUpdate(1)
  \/ \E s \in Statuses, p \in PrevStatuses : Idle /\ EvalStart(1, s, p) /\ UNCHANGED sched
  \/ EvalFindUnique(1)
  \/ EvalCountSince(1)
  \/ EvalLastSuccess(1)
  \/ EvalTotalFailures(1)
  \/ EvalFirstFailure(1)
  \/ \E d \in BOOLEAN : EvalDispatch(1, d)
  \/ EvalQueryFail(1)

SpecSeq == Init /\ [][NextSeq]_vars

\* The scheduler loop on one monitor: probe, record, then evaluate with the
\* previous probe's status, one probe after the other.
SchedRecord(s) ==
  /\ sched.pc = "sleep"
  /\ Idle
  /\ nRecs < MaxProbes
  /\ RecStart(1, s, "m1", NULL, "http")
  /\ sched' = [sched EXCEPT !.pc = "record", !.cur = s]

SchedNotify ==
  /\ sched.pc = "record"
  /\ recs[1].pc = "returned"
  /\ EvalStart(1, sched.cur, sched.prev)
  /\ sched' = [sched EXCEPT !.pc = "notify"]

SchedSleep ==
  /\ sched.pc = "notify"
  /\ evals[1].pc = "done"
  /\ sched' = [sched EXCEPT !.pc = "sleep", !.prev = sched.cur]
  /\ UNCHANGED <<dbVars, nRecs, cfgVars, otherVars, cache, recs, evals, run>>

NextSched ==
  \/ \E s \in Statuses : SchedRecord(s)
  \/ RecCreate(1)
  \/ RecUpdate(1)
  \/ SchedNotify
  \/ EvalFindUnique(1)
  \/ EvalCountSince(1)
  \/ EvalLastSuccess(1)
  \/ EvalTotalFailures(1)
  \/ EvalFirstFailure(1)
  \/ \E d \in BOOLEAN : EvalDispatch(1, d)
  \/ EvalQueryFail(1)
  \/ SchedSleep

SpecSched == Init /\ [][NextSched]_vars

\* One executeMonitorCheck call on any monitor, or one call of a checker by
\* itself; timers fire and probes settle.
InitCheck ==
  /\ InitEngine
  /\ resendInterval = 0
  /\ \A c \in Channels : ~bindings[c].enabled
  /\ InitOther({"chk"})
  /\ \/ \E t \in MonitorTypes, n \in 0..MaxRetries, c \in 0..MaxRetries :
          chk = NewCheck(t, n, c)
     \/ \E t \in RetryingTypes, c \in 0..MaxRetries : chk = DirectCheck(t, c)
     \/ \E t \in MonitorTypes, n \in 0..MaxRetries : chk = NewCheckBadConfig(t, n)
     \/ \E t \in DatabaseTypes, n \in 0..MaxRetries : chk = NewCheckInvalidConfig(t, n)

NextCheck ==
  \/ ExecSwitch
  \/ \E r \in Statuses : ProbeSettles(r)
  \/ ProbeThrows
  \/ CheckerTimer
  \/ ExecTimer

SpecCheck == InitCheck /\ [][NextCheck]_vars /\ WF_vars(NextCheck)

\* One DingTalk or WeCom dispatch, with any response.
InitPost ==
  /\ InitEngine
  /\ resendInterval = 0
  /\ \A c \in Channels : ~bindings[c].enabled
  /\ InitOther({"post"})
  /\ \E t \in PostTypes, u \in BOOLEAN, st \in HttpStatuses, b \in ResponseBodies :
       post = NewPost(t, u, st, b)

NextPost ==
  \/ PostSend
  \/ PostSettles

SpecPost == InitPost /\ [][NextPost]_vars

\* One probe of a port, mysql or redis monitor, on any config.
InitPortCheck ==
  /\ InitEngine
  /\ resendInterval = 0
  /\ \A c \in Channels : ~bindings[c].enabled
  /\ InitOther({"portCheck"})
  /\ \E t \in PortTypes, h \in BOOLEAN, p \in PortValues :
       portCheck = NewPortCheck(t, h, p)

NextPortCheck ==
  \/ PortCheckStarts
  \/ \E up \in BOOLEAN : PortCheckSettles(up)

SpecPortCheck == InitPortCheck /\ [][NextPortCheck]_vars

\* Group creation and renaming, by requests that may overlap.
InitGroupNames ==
  /\ InitEngine
  /\ resendInterval = 0
  /\ \A c \in Channels : ~bindings[c].enabled
  /\ InitOther({"grp"})
  /\ grp = NoGroups

NextGroupNames ==
  \/ \E r \in ReqIds, u \in Sessions, n \in RequestNames : PostStart(r, u, n)
  \/ \E r \in ReqIds : PostFindName(r)
  \/ \E r \in ReqIds : PostMaxOrder(r)
  \/ \E r \in ReqIds : PostCreate(r)
  \/ \E r \in ReqIds, u \in Sessions, g \in GroupIds, n \in RequestNames : PutStart(r, u, g, n)
  \/ \E r \in ReqIds : PutFindGroup(r)
  \/ \E r \in ReqIds : PutFindConflict(r)
  \/ \E r \in ReqIds : PutUpdate(r)

SpecGroupNames == InitGroupNames /\ [][NextGroupNames]_vars

\* Group deletion, with monitors being moved between groups meanwhile.  The
\* groups are there from the start, the first of one user and the others of
\* another; each monitor is in one of them or in none.
InitGroupDelete ==
  /\ InitEngine
  /\ resendInterval = 0
  /\ \A c \in Channels : ~bindings[c].enabled
  /\ InitOther({"grp"})
  /\ \E member \in [MonitorIds -> GroupIds \cup {NULL}] :
       grp = [NoGroups EXCEPT
                !.groups = [g \in GroupIds |-> IF g = 1 THEN GroupRow("a", "u1")
                                                         ELSE GroupRow("b", "u2")],
                !.monitors = [m \in MonitorIds |-> MonitorRow(member[m])]]

NextGroupDelete ==
  \/ \E r \in DeleteIds, u \in Sessions, g \in GroupIds : DeleteStart(r, u, g)
  \/ \E r \in DeleteIds : DeleteFind(r)
  \/ \E r \in DeleteIds : DeleteUpdateMany(r)
  \/ \E r \in DeleteIds : DeleteDelete(r)
  \/ \E m \in MonitorIds, g \in GroupIds \cup {NULL} : AssignMonitor(m, g)

SpecGroupDelete == InitGroupDelete /\ [][NextGroupDelete]_vars

\* Calls of the id generator, one after another, at any times.
InitIds ==
  /\ InitEngine
  /\ resendInterval = 0
  /\ \A c \in Channels : ~bindings[c].enabled
  /\ InitOther({})

NextIds ==
  \/ IdCall
  \/ \E t \in RelTimes, n \in 1..MaxIds : IdAttempt(t, n)
  \/ \E r \in UuidRandoms : IdFallback(r)

SpecIds == InitIds /\ [][NextIds]_vars

\* One checkDatabase call on a config with a valid port.
InitConn ==
  /\ InitEngine
  /\ resendInterval = 0
  /\ \A c \in Channels : ~bindings[c].enabled
  /\ InitOther({"conn"})
  /\ \E t \in DatabaseTypes, q \in Queries, n \in 0..MaxRetries : conn = NewConn(t, q, n)

NextConn ==
  \/ ConnOpen
  \/ \E ok \in BOOLEAN : ConnConnect(ok)
  \/ \E ok \in BOOLEAN : ConnQuery(ok)
  \/ \E ok \in BOOLEAN : ConnClose(ok)
  \/ ConnRetry

SpecConn == InitConn /\ [][NextConn]_vars

\* One checkIcmp call.
InitIcmp ==
  /\ InitEngine
  /\ resendInterval = 0
  /\ \A c \in Channels : ~bindings[c].enabled
  /\ InitOther({"icmp"})
  /\ \E n \in 0..MaxRetries, l \in PacketLossLimits, t \in ResponseTimeLimits :
       icmp = NewIcmp(n, l, t)

NextIcmp ==
  \/ \E a \in BOOLEAN, l \in Losses, t \in PingTimes : IcmpProbe(a, l, t)
  \/ IcmpThrows
  \/ IcmpRetry

SpecIcmp == InitIcmp /\ [][NextIcmp]_vars

\* One checkPortSingle call and the events of its socket.
InitSock ==
  /\ InitEngine
  /\ resendInterval = 0
  /\ \A c \in Channels : ~bindings[c].enabled
  /\ InitOther({"sock"})
  /\ \E p \in SockPorts : sock = NewSock(p)

NextSock ==
  \/ SockConnect
  \/ \E e \in SocketEvents : SockEvent(e)

SpecSock == InitSock /\ [][NextSock]_vars

\* ------------------------------------------------------------ claims
\* C30: once an event of the socket has fired, the promise is settled, UP when
\* the first event was connect and DOWN otherwise, with the result of the
\* first event's handler unless socket.connect had thrown, and
\* socket.destroy() has been called once, however many events followed; a
\* settled result never changes.
C30_FirstEventWins ==
  /\ [](sock.events # <<>>
          => /\ sock.resolved
             /\ sock.destroys = 1
             /\ sock.result.status = (IF sock.events[1].kind = "connect" THEN UP ELSE DOWN)
             /\ ~sock.threw => (sock.result = EventResult(sock.events[1])
                                 /\ sock.resolveCalls = 1))
  /\ [][sock.result.status # NULL => sock'.result = sock.result]_vars

\* A timeout fired first and settled the check DOWN; the connect and the
\* error that came after it changed nothing.
C30_Witness ==
  /\ Len(sock.events) = 3
  /\ sock.events[1].kind = "timeout"
  /\ sock.events[2].kind = "connect"
  /\ sock.events[3].kind = "error"
  /\ sock.result = [status |-> DOWN, message |-> "TIMEOUT"]
  /\ sock.destroys = 1 /\ sock.resolveCalls = 1

\* C27: an evaluation in which the monitor lookup or a history query has failed
\* has returned to its caller, has dispatched to no channel and has not
\* written lastNotified.
C27_QueryFailureIsContained ==
  \A k \in Slots :
    evals[k].err
      => /\ evals[k].pc = "done"
         /\ ~Emitted(evals[k])
         /\ ~evals[k].cacheSet

\* A DOWN evaluation with a channel to reach was past the lookup, on its way to
\* a notification, when one of its history queries failed.
C27_Witness ==
  /\ Len(Dispatchable) > 0 /\ cache = NoEntry
  /\ evals[1].err /\ evals[1].pc = "done"
  /\ evals[1].kind = "down" /\ evals[1].failureCount # NULL

C25_RecoveryCarriesDuration ==
  \A k \in Slots :
    (evals[k].kind = "recovery" /\ evals[k].data # NoData)
      => evals[k].data.message =
           [head |-> "recovered", n |-> RecoverDuration(evals[k].last, evals[k].now)]

\* C24: an attempt that has returned is UP exactly when the host replied, the
\* measured packet loss is at most maxPacketLoss (0 when absent) and, when
\* maxResponseTime is set and a time was measured, the time is at most
\* maxResponseTime.
C24_UpIffAliveAndWithinLimits ==
  icmp.pc = "returned"
    => (icmp.status = UP
          <=> /\ icmp.alive
              /\ icmp.loss <= (IF icmp.maxPacketLoss = NULL THEN 0 ELSE icmp.maxPacketLoss)
              /\ (icmp.maxResponseTime # NULL /\ icmp.time # NULL)
                   => icmp.time <= icmp.maxResponseTime)

\* C23: when an attempt has returned, end() / disconnect() has been called
\* once on every connection or client assigned so far, this attempt's
\* included, on every path; the result is UP only when the connection
\* succeeded; and the result of an attempt, once set, is what it returns,
\* whether or not the close fails.
C23_ConnectionAlwaysClosed ==
  /\ [](conn.pc = "returned"
          => /\ conn.closeCalls = conn.opens
             /\ conn.connected => conn.handle
             /\ conn.result.status \in {UP, DOWN}
             /\ conn.result.status = UP => conn.connected)
  /\ [][(conn.result.status # NULL /\ conn'.pc # "called")
         => conn'.result = conn.result]_vars

\* A redis command has failed on an open connection, and the close has failed
\* too: the call has returned the command's failure.
C23_Witness ==
  /\ conn.pc = "returned" /\ conn.type = "redis" /\ conn.connected
  /\ conn.result = ConnResult(DOWN, "commandFailed")
  /\ conn.opens = 1 /\ conn.closeCalls = 1 /\ ~conn.closed

UuidShaped(text) ==
  /\ Len(text) = 36
  /\ \A i \in 1..36 :
       IF i \in {9, 14, 19, 24} THEN text[i] = "-"
       ELSE IF i = 15 THEN text[i] = "4"
       ELSE IF i = 20 THEN text[i] \in {"8", "9", "a", "b"}
       ELSE text[i] \in SeqRange(HexDigits)

\* C22: a call makes at most 10 passes of the loop; a pass whose candidate is
\* not in the recently-seen set returns it and puts it in the set, a pass whose
\* candidate is in the set returns nothing; and a UUID is returned only after
\* 10 candidates were in the set, and is UUID-shaped.
C22_FirstFreeCandidateOrUuid ==
  /\ [](ids.attempt <= 10)
  /\ [](ids.ret.kind = "uuid" => ids.attempt = 10 /\ UuidShaped(ids.ret.text))
  /\ [][(ids.pc = "loop" /\ ids'.cand # NoId /\ ids'.pc # "threw" /\ ids.attempt < 10)
          => IF ids'.cand \in SeqRange(ids.recent)
             THEN ids'.pc = "loop" /\ ids'.attempt = ids.attempt + 1 /\ ids'.recent = ids.recent
             ELSE /\ ids'.pc = "returned" /\ ids'.ret = ids'.cand
                  /\ ids'.cand \in SeqRange(ids'.recent)]_vars

\* A call has returned a UUID, and another an 8-character id on its sixth pass.
C22_Witness ==
  /\ ids.pc = "returned" /\ ids.ret.kind = "uuid"
  /\ \E i \in 1..Len(ids.recent) : ids.recent[i].kind = "id8"

\* C28: no call of generateUltraCompactId throws.
C28_IdAtAnyTime == ids.pc # "threw"

\* C29: the recently-seen set holds at most MAX_CACHE_SIZE ids and holds every
\* compact id among those returned by the last KeepSize calls, and these are
\* distinct.
C29_RecentIdsKept ==
  /\ Len(ids.recent) <= MAX_CACHE_SIZE
  /\ \A i \in 1..Len(ids.last) :
       IsCompact(ids.last[i])
         => /\ ids.last[i] \in SeqRange(ids.recent)
            /\ \A j \in 1..Len(ids.last) : j # i => ids.last[j] # ids.last[i]

\* cleanupCache has cut the set, and the last KeepSize calls returned compact
\* ids.
C29_Witness ==
  /\ ids.trimmed /\ ids.pc = "returned"
  /\ Len(ids.last) = KeepSize /\ \A i \in 1..Len(ids.last) : IsCompact(ids.last[i])

\* C17: the step that deletes a group leaves every monitor in place, sets the
\* groupId of each monitor of that group to null and changes no other monitor;
\* the handler's updateMany touches the monitors of that group only; and no
\* monitor ever references a group that does not exist, whatever is assigned
\* to the group while the deletion is in progress.
C17_DeleteUngroupsMembers ==
  [][ /\ \A m \in MonitorIds : grp.monitors[m].exists => grp'.monitors[m].exists
      /\ \A m \in MonitorIds :
           grp'.monitors[m].groupId # NULL => grp'.groups[grp'.monitors[m].groupId].exists
      /\ \A g \in GroupIds :
           (grp.groups[g].exists /\ ~grp'.groups[g].exists)
             => \A m \in MonitorIds :
                  grp'.monitors[m] = IF grp.monitors[m].groupId = g
                                     THEN MonitorRow(NULL) ELSE grp.monitors[m]
      /\ \A r \in ReqIds :
           (grp.reqs[r].kind = "DELETE" /\ grp.reqs[r].pc = "found"
              /\ grp'.reqs[r].pc = "updated")
             => \A m \in MonitorIds :
                  grp'.monitors[m] = IF grp.monitors[m].groupId = grp.reqs[r].id
                                     THEN MonitorRow(NULL) ELSE grp.monitors[m]
    ]_vars

\* A deletion has succeeded although a monitor was assigned to the group after
\* the handler's updateMany, and a monitor of another group is still there.
C17_Witness ==
  \E r \in ReqIds :
    /\ grp.reqs[r].kind = "DELETE" /\ grp.reqs[r].pc = "done" /\ grp.reqs[r].status = 200
    /\ grp.reqs[r].raced /\ grp.reqs[r].hadMembers
    /\ ~grp.groups[grp.reqs[r].id].exists
    /\ \E m \in MonitorIds : grp.monitors[m].groupId # NULL

\* C18: no two groups of one owner have the same name.
C18_NamesUniquePerOwner ==
  \A g, h \in GroupIds :
    (g # h /\ grp.groups[g].exists /\ grp.groups[h].exists
       /\ grp.groups[g].createdById = grp.groups[h].createdById)
      => grp.groups[g].name # grp.groups[h].name

\* The configured ports the claim is about: a number that is NaN, 0, negative
\* or above 65535, and a string that holds no number or such a number and
\* nothing else.
OnlyNumber(s) == LET body == IF s # <<>> /\ Head(s) = "-" THEN Tail(s) ELSE s
                 IN  LeadingDigits(body) = Len(body)
BadPort(port) ==
  \/ port.kind = "nan"
  \/ port.kind = "number" /\ (port.n <= 0 \/ port.n > 65535)
  \/ /\ port.kind = "string"
     /\ \/ ParseInt(port.s).nan
        \/ OnlyNumber(port.s) /\ (ParseInt(port.s).n <= 0 \/ ParseInt(port.s).n > 65535)

\* C16: a probe of a port, mysql or redis monitor with a hostname and such a
\* port returns DOWN with the "invalid config: port ... is not a valid port"
\* message, and has attempted no connection.
C16_BadPortIsConfigInvalid ==
  (portCheck.pc = "returned" /\ portCheck.hostname /\ BadPort(portCheck.port))
    => /\ portCheck.result = [status |-> DOWN, message |-> "invalidPort"]
       /\ ~portCheck.connected

\* C15: a DingTalk or WeCom dispatch with a webhook URL returns normally
\* exactly when the response is 2xx and its body has no errcode other than 0;
\* it throws otherwise.
C15_SuccessIff2xxAndErrcodeZero ==
  (post.urlSet /\ post.pc \in {"returned", "threw"})
    => (post.pc = "returned"
          <=> /\ post.status # NULL /\ post.status >= 200 /\ post.status < 300
              /\ post.body.hasErrcode => post.body.errcode = 0)

ExecCalled == chk.stack # <<>>
CheckReturned == ExecCalled /\ chk.stack[1].pc = "returned"

C21_InvalidConfigNotRetried ==
  (CheckReturned /\ ConfigRejected(chk))
    => /\ chk.probes = 1
       /\ chk.stack[1].result = ProbeResult(1, DOWN)

\* The retry attempts that ended UP, by probe number.
RetryUps == {j \in 2..Len(chk.outcomes) : chk.outcomes[j].status = UP}

\* C11: when the first attempt of a returned call with retries = N > 0 was
\* DOWN, the result is UP exactly when a retry attempt ended UP; it is then the
\* result of that attempt k with the prefix "retry succeeded (k/N)", and that
\* attempt was the last one made.
C11_RetrySuccessIsFirstUp ==
  (/\ CheckReturned /\ chk.retries > 0
   /\ Len(chk.outcomes) > 0 /\ chk.outcomes[1].status = DOWN)
    => /\ chk.stack[1].result.status = UP <=> RetryUps # {}
       /\ \A j \in RetryUps :
            /\ Len(chk.outcomes) = j
            /\ chk.stack[1].result =
                 [status |-> UP, pre |-> <<Prefix("retryOk", j - 1, chk.retries)>>,
                  msgOf |-> j, dataOf |-> j]

\* The second of two retries of a port monitor has succeeded.
C11_Witness ==
  /\ CheckReturned /\ chk.type = "port" /\ chk.retries = 2
  /\ Len(chk.outcomes) = 3 /\ chk.outcomes[2].status = DOWN /\ chk.outcomes[3].status = UP
  /\ chk.stack[1].result.status = UP

\* C12: when the first attempt and all N > 0 retries were DOWN, the result is
\* the first attempt's (its ping and details) with the message the first
\* attempt's under the prefix "still failing after N retries".
C12_AllFailedReturnsFirst ==
  (/\ CheckReturned /\ chk.retries > 0
   /\ Len(chk.outcomes) = 1 + chk.retries
   /\ \A j \in 1..Len(chk.outcomes) : chk.outcomes[j].status = DOWN)
    => chk.stack[1].result =
         [status |-> DOWN, pre |-> <<Prefix("retryFail", chk.retries, chk.retries)>>,
          msgOf |-> 1, dataOf |-> 1]

\* Both retries of a database monitor have failed after the first attempt.
C12_Witness ==
  /\ CheckReturned /\ chk.type = "redis" /\ chk.retries = 2
  /\ Len(chk.outcomes) = 3 /\ \A j \in 1..3 : chk.outcomes[j].status = DOWN
  /\ chk.stack[1].result.dataOf = 1

\* C13: no frame of executeMonitorCheck throws; a config that does not parse
\* and a first probe that throws each end the call with the DOWN result whose
\* message is the error's under the prefix "check failed".
C13_NeverThrows ==
  /\ \A j \in 1..Len(chk.stack) : chk.stack[j].pc # "threw"
  /\ (CheckReturned /\ ~chk.cfgOk)
       => /\ chk.probes = 0
          /\ chk.stack[1].result =
               [status |-> DOWN, pre |-> <<Prefix("error", 0, 0)>>,
                msgOf |-> 0, dataOf |-> NULL]
  /\ (CheckReturned /\ Len(chk.outcomes) > 0 /\ chk.outcomes[1].threw)
       => chk.stack[1].result =
            [status |-> DOWN, pre |-> <<Prefix("error", 0, 0)>>,
             msgOf |-> 1, dataOf |-> NULL]

\* The first probe of a monitor with retries has thrown and the call returned.
C13_Witness ==
  /\ CheckReturned /\ chk.retries > 0
  /\ Len(chk.outcomes) = 1 /\ chk.outcomes[1].threw
  /\ chk.stack[1].result.status = DOWN

IsDispatchable(c) == bindings[c].enabled /\ bindings[c].channel.enabled
RowsOf(id) == {j \in 1..Len(history) : history[j].id = id}

\* C1: whenever no recordMonitorStatus call is suspended (and none has thrown),
\* the monitor's lastStatus is the status of its most recent history row.
C1_LastStatusIsLatestRow ==
  (RecsInFlight = {} /\ (\A k \in Slots : recs[k].pc # "threw") /\ Len(history) > 0)
    => monitor.lastStatus = history[Len(history)].status

\* C2: under the scheduler loop with resendInterval = N > 0, every probe DOWN
\* and no query failed, probe k emits a DOWN notification exactly when k is
\* 1, 1+N, 1+2N, ...
C2_ResendEveryNthProbe ==
  (/\ sched.pc = "notify" /\ evals[1].pc = "done" /\ ~run.err
   /\ resendInterval > 0 /\ Len(Dispatchable) > 0
   /\ \A j \in 1..Len(history) : history[j].status = DOWN)
    => (Emitted(evals[1]) <=> (Len(history) - 1) % resendInterval = 0)

\* C3 as stated: with resendInterval = 0 and a channel to reach, once a DOWN
\* evaluation of a run has completed (no query having failed), the run has
\* emitted exactly one DOWN notification.
C3_ExactlyOnePerRun ==
  (/\ resendInterval = 0 /\ Len(Dispatchable) > 0
   /\ run.open /\ ~run.err /\ EvalsInFlight = {})
    => run.emits = 1

\* C3 as amended: with resendInterval = 0 and a channel to reach, a run of
\* consecutive DOWN evaluations emits at most one DOWN notification, and a DOWN
\* evaluation whose queries succeed emits exactly when its prevStatus is not
\* DOWN and the lastNotified entry it reads is not a DOWN one.
C3_AtMostOnePerRun ==
  (resendInterval = 0 /\ Len(Dispatchable) > 0) =>
    /\ run.emits <= 1
    /\ \A k \in Slots :
         (evals[k].pc = "done" /\ evals[k].status = DOWN /\ ~evals[k].err)
           => (Emitted(evals[k]) <=>
                 (evals[k].prev # DOWN /\ evals[k].last.status # DOWN))

\* A second DOWN evaluation of a run, given prevStatus UP, is suppressed.
C3_Witness ==
  /\ resendInterval = 0 /\ Len(Dispatchable) > 0
  /\ evals[1].pc = "done" /\ evals[1].status = DOWN /\ evals[1].prev = UP
  /\ ~evals[1].err /\ ~Emitted(evals[1]) /\ run.emits = 1

\* C4: an evaluation called with a non-null prevStatus equal to the new status
\* dispatches to no channel and does not write lastNotified.
C4_NoTransitionIsNoOp ==
  \A k \in Slots :
    (evals[k].pc # "idle" /\ evals[k].prev # NULL /\ evals[k].prev = evals[k].status)
      => (~Emitted(evals[k]) /\ ~evals[k].cacheSet /\ evals[k].pc \in {"findUnique", "done"})

\* Such a call has returned, on a monitor with a channel to reach and a DOWN
\* notification possible otherwise.
C4_Witness ==
  /\ Len(Dispatchable) > 0 /\ cache = NoEntry
  /\ evals[1].pc = "done" /\ ~evals[1].err
  /\ evals[1].prev = DOWN /\ evals[1].status = DOWN

\* C5: an evaluation that finds at most one history row and has new status UP
\* dispatches to no channel, whatever prevStatus it was given.
C5_NewMonitorUpIsSilent ==
  \A k \in Slots :
    (evals[k].histLen \in {0, 1} /\ evals[k].status = UP)
      => (~Emitted(evals[k]) /\ evals[k].pc = "done")

\* A brand-new monitor's UP evaluation given prevStatus DOWN has returned.
C5_Witness ==
  /\ Len(Dispatchable) > 0
  /\ evals[1].pc = "done" /\ ~evals[1].err
  /\ evals[1].histLen = 1 /\ evals[1].status = UP /\ evals[1].prev = DOWN

\* C6: a completed evaluation of a monitor that is not new, with resolved
\* previous status DOWN and new status UP, has sent the recovery notification
\* once to every enabled channel and left lastNotified = (now, UP); and a DOWN
\* evaluation that reads an UP entry emits, whatever resendInterval is.
C6_RecoveryNotifiesAndResets ==
  \A k \in Slots :
    /\ (/\ evals[k].pc = "done" /\ ~evals[k].err /\ HasEnabledBindings
        /\ evals[k].status = UP /\ evals[k].realPrev = DOWN /\ evals[k].histLen = 2)
         => /\ evals[k].kind = "recovery"
            /\ \A c \in Channels : evals[k].att[c] = IF IsDispatchable(c) THEN 1 ELSE 0
            /\ evals[k].cacheSet
            /\ cache = [time |-> evals[k].now, status |-> UP]
    /\ (/\ evals[k].pc = "done" /\ ~evals[k].err /\ Len(Dispatchable) > 0
        /\ evals[k].status = DOWN /\ evals[k].prev # DOWN /\ evals[k].last.status = UP)
         => Emitted(evals[k])

\* A recovery has been notified on a monitor with a repeat interval.
C6_Witness ==
  /\ resendInterval > 0
  /\ evals[1].pc = "done" /\ evals[1].kind = "recovery" /\ Emitted(evals[1])
  /\ cache = [time |-> evals[1].now, status |-> UP]

\* C7: an evaluation that has dispatched and returned made exactly one dispatch
\* to every enabled channel bound by an enabled binding; no evaluation
\* dispatches to another channel, or twice to one.
C7_EveryEnabledChannelOnce ==
  \A k \in Slots :
    /\ \A c \in Channels : evals[k].att[c] <= (IF IsDispatchable(c) THEN 1 ELSE 0)
    /\ (evals[k].pc = "done" /\ Emitted(evals[k]))
         => \A c \in Channels : IsDispatchable(c) => evals[k].att[c] = 1

\* The first channel is of a type sendNotification throws on, and the second
\* channel has had its dispatch all the same.
C7_Witness ==
  /\ IsDispatchable(1) /\ bindings[1].channel.type = "unknown"
  /\ IsDispatchable(2)
  /\ evals[1].pc = "done" /\ evals[1].att[1] = 1 /\ evals[1].att[2] = 1

\* C8: with resendInterval = 0, of two evaluations with new status DOWN that
\* overlap in time, at most one emits a DOWN notification.
C8_OverlappingDownNotifyOnce ==
  resendInterval = 0 =>
    ~ \E a, b \in Slots :
        /\ a # b /\ b \in evals[a].overlap
        /\ evals[a].status = DOWN /\ evals[b].status = DOWN
        /\ Emitted(evals[a]) /\ Emitted(evals[b])

\* C19: an evaluation that has set the monitor's lastNotified entry has made at
\* least one channel dispatch.
C19_CacheSetOnlyWhenEmitted ==
  \A k \in Slots : evals[k].cacheSet => Emitted(evals[k])

\* C20: a DOWN evaluation that is dispatching hands out aggregated data: its
\* failureCount is the number of DOWN rows later than every UP row, at least 1
\* when the latest row is a DOWN one, and its message begins with the
\* continuous-failures line carrying that number.  The first DOWN of a monitor
\* with no earlier row is no exception.
C20_DownIsAggregated ==
  \A k \in Slots :
    (evals[k].pc = "dispatch" /\ evals[k].status = DOWN)
      => LET rows == {j \in 1..Len(history) :
                        /\ history[j].status = DOWN
                        /\ \A i \in 1..Len(history) :
                             history[i].status = UP => history[i].timestamp < history[j].timestamp}
             data == evals[k].data
         IN  /\ data.failureCount = Cardinality(rows)
             /\ (Len(history) > 0 /\ history[Len(history)].status = DOWN)
                  => data.failureCount >= 1
             /\ data.message = [head |-> "continuousFailures", n |-> data.failureCount]

\* The first DOWN of a new monitor is being dispatched, its only row counted;
\* and a DOWN after an UP row and a DOWN row before it, one row counted.
C20_Witness ==
  /\ evals[1].pc = "dispatch" /\ evals[1].status = DOWN /\ evals[1].isNew
  /\ Len(history) = 1 /\ history[1].status = DOWN
  /\ evals[1].data.failureCount = 1

\* C14: every history row has message null exactly when its status is UP and
\* the monitor type given to the call is not push, and a PENDING row stores the
\* "waiting" text.
C14_NullMessageIffUpAndNotPush ==
  \A k \in Slots : \A j \in RowsOf(recs[k].id) :
    /\ history[j].message = NoMessage
          <=> (recs[k].status = UP /\ recs[k].monitorType # "push")
    /\ recs[k].status = PENDING => history[j].message = "waiting"

\* C9: a recordMonitorStatus call that threw left no history row and no change
\* of the last-known fields; one that returned left exactly one row.
C9_RecordAllOrNothing ==
  \A k \in Slots :
    /\ recs[k].pc = "threw"
         => /\ RowsOf(recs[k].id) = {}
            /\ recs[k].checkAt = NULL \/ monitor.lastCheckAt # recs[k].checkAt
    /\ recs[k].pc = "returned" => Cardinality(RowsOf(recs[k].id)) = 1

====
